---- MODULE Spec2Model ----
(***************************************************************************)
(* Policy scope, cascade resolution and reconciliation of                  *)
(* api/tacticalrmm/automation/models.py (class Policy).                    *)
(*                                                                         *)
(* The database rows the methods read and write are the state: agents,     *)
(* sites, clients, core settings and policies, the Check rows and the      *)
(* AutomatedTask rows.  Template rows (agent = None, owned by a policy)    *)
(* are a fixed table; rows owned by an agent are created and deleted by    *)
(* the modelled methods.                                                   *)
(***************************************************************************)
EXTENDS Integers, Sequences, FiniteSets, TLC

None == "None"

\* ------------------------------------------------------------------------
\* The organisation: which rows exist.  agent.site and site.client are
\* foreign keys that the modelled code only reads.
Policies == {"P1", "P2", "P3"}
Agents == {"a1", "a2"}
Sites == {"s1", "s2"}
Clients == {"c1"}
MonTypes == {"server", "workstation"}
Platforms == {"windows", "linux"}

site_of(a) == IF a = "a1" THEN "s1" ELSE "s2"
client_of_site(s) == "c1"
client_of(a) == client_of_site(site_of(a))

\* sync_status values the code reads or writes, and "synced" for a row the
\* remote agent has acknowledged.
SyncStatuses == {"initial", "notsynced", "synced", "pendingdeletion"}

\* Budget of administrative edits (saves of policies, assignments, flags,
\* exclusions, direct checks, removals) in one behaviour.
MaxEdits == 1

\* The positions in the returned list at which a creation call may raise.
RaiseAt == {1, 2}

VARIABLES
    agent,      \* [Agents -> [policy, monitoring_type, block_policy_inheritance, plat]]
    site,       \* [Sites -> [server_policy, workstation_policy, block_policy_inheritance]]
    client,     \* [Clients -> [server_policy, workstation_policy]]
    core,       \* CoreSettings: [server_policy, workstation_policy]
    policy,     \* [Policies -> [active, enforced, excluded_agents, excluded_sites, excluded_clients]]
    checks,     \* the Check rows owned by agents (set of records)
    tasks,      \* the AutomatedTask rows owned by agents (set of records)
    next_pk,    \* [check, task]: next primary key of each table
    run,        \* what is remembered of the last generate_policy_* call
    jobs,       \* generate_agent_checks_task messages dispatched and not yet taken
    related,    \* the last get_related call: its arguments and its result
    edits,      \* administrative edits made so far
    resolving,  \* which of the two generate methods this behaviour's passes call
    op,         \* the Policy.save or Policy.delete call in progress
    gone,       \* the policies that have no row (not yet created, or deleted)
    workers     \* concurrent generate_policy_* calls on one agent: position and locals

vars == <<agent, site, client, core, policy, checks, tasks, next_pk, run, jobs,
          related, edits, resolving, op, gone, workers>>

\* ------------------------------------------------------------------------
\* Template rows.  Check rows of a policy (agent = None); one record shape
\* for every Check row, with the type-specific fields unused by a type left
\* at "" / 0.
TemplateCheck(pk, p, type, disk, ip, svc, script, log, ev) ==
    [pk |-> pk, agent |-> None, policy |-> p, managed_by_policy |-> FALSE,
     parent_check |-> 0, overriden_by_policy |-> FALSE, sync_status |-> "initial",
     check_type |-> type, disk |-> disk, ip |-> ip, svc_name |-> svc,
     script |-> script, log_name |-> log, event_id |-> ev]

PolicyCheckRows ==
    { TemplateCheck(1,  "P1", "diskspace", "C:", "", "", "", "", 0),
      TemplateCheck(2,  "P1", "ping", "", "10.0.0.1", "", "", "", 0),
      TemplateCheck(3,  "P1", "cpuload", "", "", "", "", "", 0),
      TemplateCheck(4,  "P1", "script", "", "", "", "ps1", "", 0),
      TemplateCheck(5,  "P1", "eventlog", "", "", "", "", "Application", 1),
      TemplateCheck(6,  "P2", "diskspace", "C:", "", "", "", "", 0),
      TemplateCheck(7,  "P2", "diskspace", "D:", "", "", "", "", 0),
      TemplateCheck(8,  "P2", "ping", "", "10.0.0.1", "", "", "", 0),
      TemplateCheck(9,  "P2", "memory", "", "", "", "", "", 0),
      TemplateCheck(10, "P2", "winsvc", "", "", "spooler", "", "", 0),
      TemplateCheck(11, "P2", "eventlog", "", "", "", "", "Application", 1),
      TemplateCheck(12, "P2", "eventlog", "", "", "", "", "Application", 2),
      TemplateCheck(13, "P3", "memory", "", "", "", "", "", 0),
      TemplateCheck(14, "P3", "winsvc", "", "", "spooler", "", "", 0),
      TemplateCheck(15, "P3", "script", "", "", "", "ps1", "", 0),
      TemplateCheck(16, "P3", "script", "", "", "", "sh1", "", 0),
      TemplateCheck(17, "P3", "cpuload", "", "", "", "", "", 0) }

\* script.shell of the Script rows the templates refer to.
ScriptShell(s) == IF s = "ps1" THEN "powershell" ELSE IF s = "sh1" THEN "shell" ELSE "python"

\* AutomatedTask template rows of the policies.
TemplateTask(pk, p, script) ==
    [pk |-> pk, agent |-> None, policy |-> p, managed_by_policy |-> FALSE,
     parent_task |-> 0, sync_status |-> "initial", script |-> script]

PolicyTaskRows ==
    { TemplateTask(1, "P1", "ps1"),
      TemplateTask(2, "P1", "py1"),
      TemplateTask(3, "P2", "sh1"),
      TemplateTask(4, "P2", "py1"),
      TemplateTask(5, "P3", "ps1") }

FirstAgentPk == 101

\* ------------------------------------------------------------------------
\* The element of a one-element set.  In The({ e(x) : x \in {v} }) the name x
\* stands for the value of v, computed once, as a local of the code holds
\* the value assigned to it.
The(S) == CHOOSE r \in S : TRUE

\* A queryset read as a list: rows in primary-key order.
SortedByPk(rows) ==
    The({ [k \in 1..Cardinality(rs) |->
             CHOOSE r \in rs : Cardinality({x \in rs : x.pk <= r.pk}) = k]
          : rs \in {rows} })

\* The candidates at the positions idx, in order.
AtPositions(cands, idx) ==
    The({ [k \in 1..Cardinality(ix) |->
             cs[CHOOSE i \in ix : Cardinality({j \in ix : j <= i}) = k]]
          : cs \in {cands}, ix \in {idx} })

SeqToSet(s) == {s[i] : i \in 1..Len(s)}
Pks(s) == [i \in 1..Len(s) |-> s[i].pk]
PkSet(s) == {s[i].pk : i \in 1..Len(s)}

\* policy.policychecks.all() and policy.autotasks.all()
PolicyChecksOf == [p \in Policies |-> SortedByPk({c \in PolicyCheckRows : c.policy = p})]
AutoTasksOf == [p \in Policies |-> SortedByPk({t \in PolicyTaskRows : t.policy = p})]
policychecks(p) == PolicyChecksOf[p]
autotasks(p) == AutoTasksOf[p]

\* getattr(obj, f"{mon_type}_policy")
mon_policy(row, mt) == IF mt = "server" THEN row.server_policy ELSE row.workstation_policy

\* ------------------------------------------------------------------------
\* Policy.is_agent_excluded
is_agent_excluded(p, a) ==
    \/ a \in policy[p].excluded_agents
    \/ site_of(a) \in policy[p].excluded_sites
    \/ client_of(a) \in policy[p].excluded_clients

\* Policy.get_related: the three querysets and their union.
explicit_agents(p, mt) ==
    { a \in Agents :
        /\ agent[a].policy = p
        /\ agent[a].monitoring_type = mt
        /\ a \notin policy[p].excluded_agents
        /\ site_of(a) \notin policy[p].excluded_sites
        /\ client_of(a) \notin policy[p].excluded_clients }

explicit_clients(p, mt) ==
    { c \in Clients : mon_policy(client[c], mt) = p /\ c \notin policy[p].excluded_clients }

explicit_sites(p, mt) ==
    { s \in Sites : mon_policy(site[s], mt) = p /\ s \notin policy[p].excluded_sites }

site_filtered_agents(p, mt) ==
    { a \in Agents :
        /\ ~agent[a].block_policy_inheritance
        /\ site_of(a) \in { s \in explicit_sites(p, mt) :
                              /\ client_of_site(s) \notin explicit_clients(p, mt)
                              /\ client_of_site(s) \notin policy[p].excluded_clients }
        /\ agent[a].monitoring_type = mt }

\* A variant of the second inherited queryset: the site's flag is not read.
client_filtered_agents_any_site(p, mt) ==
    { a \in Agents :
        /\ ~agent[a].block_policy_inheritance
        /\ client_of(a) \in explicit_clients(p, mt)
        /\ agent[a].monitoring_type = mt }

client_filtered_agents(p, mt) ==
    { a \in Agents :
        /\ ~agent[a].block_policy_inheritance
        /\ ~site[site_of(a)].block_policy_inheritance
        /\ client_of(a) \in explicit_clients(p, mt)
        /\ agent[a].monitoring_type = mt }

get_related(p, mt) ==
    site_filtered_agents(p, mt) \cup client_filtered_agents(p, mt) \cup explicit_agents(p, mt)

\* Policy.related_agents
related_agents(p) == get_related(p, "server") \cup get_related(p, "workstation")

\* ------------------------------------------------------------------------
\* Collaborators of the cascade that live in other modules of the repository.

\* Agent.get_agent_policies: the policy assigned to the agent, to its site and
\* to its client for the agent's monitoring type, and the default policy of
\* that type.  A policy that excludes the agent is absent; the agent's
\* block_policy_inheritance removes the site, client and default entries and
\* the site's block_policy_inheritance removes the client entry.
Applies(p, a) == IF p # None /\ ~is_agent_excluded(p, a) THEN p ELSE None

get_agent_policies(a) ==
    LET mt == agent[a].monitoring_type
        blocked == agent[a].block_policy_inheritance
        site_blocked == site[site_of(a)].block_policy_inheritance
    IN [agent_policy |-> Applies(agent[a].policy, a),
        site_policy |-> IF blocked THEN None
                        ELSE Applies(mon_policy(site[site_of(a)], mt), a),
        client_policy |-> IF blocked \/ site_blocked THEN None
                          ELSE Applies(mon_policy(client[client_of(a)], mt), a),
        default_policy |-> IF blocked THEN None
                           ELSE Applies(mon_policy(core, mt), a)]

\* Agent.is_supported_script(shell)
is_supported_script(a, shell) ==
    IF agent[a].plat = "windows" THEN shell \in {"powershell", "cmd", "python"}
    ELSE shell \in {"shell", "python"}

\* Check.create_policy_check(agent): the row it inserts, a copy of the
\* template owned by the agent and linked to the template.
create_policy_check(t, a, pk) ==
    [t EXCEPT !.pk = pk, !.agent = a, !.policy = None, !.managed_by_policy = TRUE,
              !.parent_check = t.pk, !.overriden_by_policy = FALSE,
              !.sync_status = "initial"]

\* AutomatedTask.create_policy_task(agent)
create_policy_task(t, a, pk) ==
    [t EXCEPT !.pk = pk, !.agent = a, !.policy = None, !.managed_by_policy = TRUE,
              !.parent_task = t.pk, !.sync_status = "initial"]

\* The rows inserted by successful creation calls for templates ts, with
\* primary keys from pk on.
CreatedChecks(ts, a, pk) == {create_policy_check(ts[i], a, pk + i - 1) : i \in 1..Len(ts)}
CreatedTasks(ts, a, pk) == {create_policy_task(ts[i], a, pk + i - 1) : i \in 1..Len(ts)}

\* ------------------------------------------------------------------------
\* Policy.cascade_policy_checks

\* agent.agentchecks.filter(managed_by_policy=False), as a list
agent_checks(a) == SortedByPk({c \in checks : c.agent = a /\ ~c.managed_by_policy})

\* parent_check of the agent's managed checks
agent_checks_parent_pks(a) ==
    {c.parent_check : c \in {x \in checks : x.agent = a /\ x.managed_by_policy}}

\* A variant of a level: the policy's active flag is not read.
LevelChecksIgnoringActive(p, enf) ==
    IF p # None /\ policy[p].enforced = enf THEN policychecks(p) ELSE <<>>

\* One level of the hierarchy: the templates it adds to enforced_checks
\* (enf = TRUE) or to policy_checks (enf = FALSE).
LevelChecks(p, enf) ==
    IF p # None /\ policy[p].active /\ policy[p].enforced = enf
    THEN policychecks(p) ELSE <<>>

enforced_checks(a) ==
    LET pol == get_agent_policies(a)
    IN LevelChecks(pol.agent_policy, TRUE) \o LevelChecks(pol.site_policy, TRUE)
       \o LevelChecks(pol.client_policy, TRUE) \o LevelChecks(pol.default_policy, TRUE)

policy_checks(a) ==
    LET pol == get_agent_policies(a)
    IN LevelChecks(pol.agent_policy, FALSE) \o LevelChecks(pol.site_policy, FALSE)
       \o LevelChecks(pol.client_policy, FALSE) \o LevelChecks(pol.default_policy, FALSE)

\* A variant of the loop's order: the agent's own checks first.
CandidatesAgentFirst(a) == agent_checks(a) \o enforced_checks(a) \o policy_checks(a)

\* The loop's candidates, in order.
Candidates(a) == enforced_checks(a) \o agent_checks(a) \o policy_checks(a)

\* A variant of the branch conditions: the type test without the platform
\* test.
HandledAnyPlatform(check, a) ==
    check.check_type \in {"diskspace", "ping", "cpuload", "memory", "winsvc", "script",
                           "eventlog"}

\* The condition under which a branch of the loop handles the check: the
\* type test and its platform test.
Handled(check, a) ==
    CASE check.check_type = "diskspace" -> agent[a].plat = "windows"
      [] check.check_type = "ping" -> TRUE
      [] check.check_type = "cpuload" -> agent[a].plat = "windows"
      [] check.check_type = "memory" -> agent[a].plat = "windows"
      [] check.check_type = "winsvc" -> agent[a].plat = "windows"
      [] check.check_type = "script" -> is_supported_script(a, ScriptShell(check.script))
      [] check.check_type = "eventlog" -> agent[a].plat = "windows"
      [] OTHER -> FALSE

\* What the branch looks up in its added_* list; the type stands for the list.
DedupKey(check) ==
    CASE check.check_type = "diskspace" -> <<"diskspace", check.disk, 0>>
      [] check.check_type = "ping" -> <<"ping", check.ip, 0>>
      [] check.check_type = "cpuload" -> <<"cpuload", "", 0>>
      [] check.check_type = "memory" -> <<"memory", "", 0>>
      [] check.check_type = "winsvc" -> <<"winsvc", check.svc_name, 0>>
      [] check.check_type = "script" -> <<"script", check.script, 0>>
      [] check.check_type = "eventlog" -> <<"eventlog", check.log_name, check.event_id>>
      [] OTHER -> <<"", "", 0>>

\* A variant of the loop: the added_* lists are never consulted, every
\* handled candidate takes the first arm.
LoopOverNoLookup(cands, a) ==
    LET handled == {i \in 1..Len(cands) : Handled(cands[i], a)}
    IN [kept |-> AtPositions(cands, {i \in handled : cands[i].agent = None}),
        overriden |-> {}]

\* The loop, candidate by candidate.  When it reaches candidate i, the
\* added_* lists hold the keys of the earlier candidates whose branch ran
\* (handled), so candidate i takes the "not in the added list" arm (new) iff
\* no earlier handled candidate has its key.  A new candidate that is not an
\* agent check is appended to its *_checks list (kept, in loop order); an
\* agent check that is handled and not new takes the elif arm and is saved
\* with overriden_by_policy = True (overriden).
LoopOver(cands, a) ==
    The({ The({ The({
        [kept |-> AtPositions(cs, {i \in new : cs[i].agent = None}),
         overriden |-> {cs[i].pk : i \in {k \in handled \ new : cs[k].agent # None}}]
        : new \in {{i \in handled : \A j \in handled : j < i => key[j] # key[i]}} })
        : handled \in {{i \in 1..Len(cs) : Handled(cs[i], a)}},
          key \in {[i \in 1..Len(cs) |-> DedupKey(cs[i])]} })
        : cs \in {cands} })

LoopResult(a) == LoopOver(Candidates(a), a)

TypeOrder == <<"diskspace", "ping", "cpuload", "memory", "winsvc", "script", "eventlog">>

OfType(s, type) == SelectSeq(s, LAMBDA c : c.check_type = type)

Buckets(kept) ==
    The({ OfType(k, TypeOrder[1]) \o OfType(k, TypeOrder[2]) \o OfType(k, TypeOrder[3])
          \o OfType(k, TypeOrder[4]) \o OfType(k, TypeOrder[5])
          \o OfType(k, TypeOrder[6]) \o OfType(k, TypeOrder[7])
          : k \in {kept} })

\* A variant of the final delete(): the parent filter inverted, the parents
\* in final_list that the agent does not hold yet.
StaleChecksInverted(a, final_pks) ==
    LET stale_parents == final_pks \ agent_checks_parent_pks(a)
    IN { c \in checks :
           /\ c.agent = a
           /\ c.managed_by_policy
           /\ c.parent_check \in stale_parents }

\* The rows the final delete() removes, given the pks of final_list.
StaleChecks(a, final_pks) ==
    The({ { c \in checks :
              /\ c.agent = a
              /\ c.managed_by_policy
              /\ c.parent_check \in stale_parents }
          : stale_parents \in {agent_checks_parent_pks(a) \ final_pks} })

\* The Check table after the call: the flagged agent checks saved, the stale
\* rows deleted.
ChecksAfterCascade(a, overriden, final_pks) ==
    The({ { IF c.pk \in ov THEN [c EXCEPT !.overriden_by_policy = TRUE] ELSE c
            : c \in checks \ StaleChecks(a, final_pks) }
          : ov \in {overriden} })

\* A variant of the returned list: final_list unfiltered.
NewChecksUnfiltered(fl, parent_pks) == fl

\* The returned list: the templates of final_list that are not yet the
\* parent of a managed check of the agent.
NewChecks(fl, parent_pks) == SelectSeq(fl, LAMBDA c : c.pk \notin parent_pks)

\* The call: final_list, the Check table it leaves and the list it returns.
cascade_policy_checks(a) ==
    The({ The({
        [final_list |-> fl,
         table |-> ChecksAfterCascade(a, res.overriden, PkSet(fl)),
         returned |-> NewChecks(fl, agent_checks_parent_pks(a))]
        : fl \in {Buckets(res.kept)} })
        : res \in {LoopResult(a)} })

\* ------------------------------------------------------------------------
\* Policy.cascade_policy_tasks

agent_tasks_parent_pks(a) ==
    {t.parent_task : t \in {x \in tasks : x.agent = a /\ x.managed_by_policy}}

\* The tasks of one level of the hierarchy that the four loops go through.
LevelTasks(p) == IF p # None /\ policy[p].active THEN autotasks(p) ELSE <<>>

\* The tasks the four loops go through, in order.
TaskCandidates(a) ==
    LET pol == get_agent_policies(a)
    IN LevelTasks(pol.agent_policy) \o LevelTasks(pol.site_policy)
       \o LevelTasks(pol.client_policy) \o LevelTasks(pol.default_policy)

\* tasks.append(task) unless its pk is already in tasks: the task at
\* position i is appended iff no earlier position holds its pk.
CollectedTasks(a) ==
    The({ AtPositions(cands, {i \in 1..Len(cands) :
                                \A j \in 1..(i - 1) : cands[j].pk # cands[i].pk})
          : cands \in {TaskCandidates(a)} })

\* tasks after the script filter
AcceptedTasks(a) ==
    SelectSeq(CollectedTasks(a), LAMBDA t : is_supported_script(a, ScriptShell(t.script)))

\* the rows of the "remove policy tasks" loop, given the pks of tasks
StaleTasks(a, accepted_pks) ==
    The({ { t \in tasks : t.agent = a /\ t.parent_task \in stale_parents }
          : stale_parents \in {{ pp \in agent_tasks_parent_pks(a) : pp \notin accepted_pks }} })

\* A variant of the loop body: the row is deleted whatever its sync_status.
RetireTaskDeleting(t) == {}

\* one row through the loop body: deleted (no row) or saved as pendingdeletion
RetireTask(t) ==
    IF t.sync_status = "initial" THEN {} ELSE {[t EXCEPT !.sync_status = "pendingdeletion"]}

TasksAfterRetire(a, accepted_pks) ==
    The({ (tasks \ stale) \cup UNION {RetireTask(t) : t \in stale}
          : stale \in {StaleTasks(a, accepted_pks)} })

\* A variant of the update(): no row is written.
ReviveTaskNever(t, a, accepted_pks) == t

\* the update() of the agent's pendingdeletion rows whose parent is in tasks
ReviveTask(t, a, accepted_pks) ==
    IF /\ t.agent = a
       /\ t.sync_status = "pendingdeletion"
       /\ t.parent_task \in accepted_pks
    THEN [t EXCEPT !.sync_status = "notsynced"] ELSE t

TasksAfterCascade(a, accepted_pks) ==
    The({ {ReviveTask(t, a, pks) : t \in TasksAfterRetire(a, pks)}
          : pks \in {accepted_pks} })

\* The returned list.
NewTasksUnfiltered(ts, parent_pks) == ts

\* A variant that returns at most one new task per call.
NewTasksAtMostOne(ts, parent_pks) ==
    LET new == SelectSeq(ts, LAMBDA t : t.pk \notin parent_pks)
    IN SubSeq(new, 1, 1)

NewTasks(ts, parent_pks) == SelectSeq(ts, LAMBDA t : t.pk \notin parent_pks)

\* The call: tasks after the script filter, the AutomatedTask table it leaves
\* and the list it returns.
cascade_policy_tasks(a) ==
    The({ [tasks |-> ts,
           table |-> TasksAfterCascade(a, PkSet(ts)),
           returned |-> NewTasks(ts, agent_tasks_parent_pks(a))]
          : ts \in {AcceptedTasks(a)} })

\* ------------------------------------------------------------------------
\* Rows and records of the state.

AgentRow(p, mt, block, plat) ==
    [policy |-> p, monitoring_type |-> mt, block_policy_inheritance |-> block, plat |-> plat]

SiteRow(sp, wp, block) ==
    [server_policy |-> sp, workstation_policy |-> wp, block_policy_inheritance |-> block]

ClientRow(sp, wp) == [server_policy |-> sp, workstation_policy |-> wp]

PolicyRow(active, enforced, ea, es, ec) ==
    [active |-> active, enforced |-> enforced, excluded_agents |-> ea,
     excluded_sites |-> es, excluded_clients |-> ec]

\* A check added to an agent directly (managed_by_policy = False).
DirectCheck(pk, a, type, disk, ip, script) ==
    [pk |-> pk, agent |-> a, policy |-> None, managed_by_policy |-> FALSE,
     parent_check |-> 0, overriden_by_policy |-> FALSE, sync_status |-> "synced",
     check_type |-> type, disk |-> disk, ip |-> ip, svc_name |-> "",
     script |-> script, log_name |-> "", event_id |-> 0]

\* The direct checks an administrator adds in this model.
DirectCheckKinds ==
    { <<"diskspace", "C:", "", "">>, <<"ping", "", "10.0.0.1", "">>,
      <<"script", "", "", "ps1">> }

IdleRun ==
    [pc |-> "idle", kind |-> "none", agent |-> None, todo |-> <<>>, accepted |-> <<>>,
     returned |-> <<>>, pre_checks |-> {}, pre_tasks |-> {}, called |-> {},
     repeat |-> FALSE, retry |-> {}]

NoCall == [policy |-> None, mon_type |-> None, result |-> {}]

\* No Policy.save or Policy.delete call in progress.  Of a call: its name,
\* the number of the statement it is at, its policy, old_policy (exists =
\* FALSE for None), the values being saved, the local agents, the jobs it
\* has dispatched, and the policy's scope when the call began.
NoOld == [exists |-> FALSE, active |-> FALSE, enforced |-> FALSE]
IdleOp ==
    [name |-> "none", pc |-> 0, policy |-> None, old |-> NoOld, active |-> FALSE,
     enforced |-> FALSE, agents |-> {}, sent |-> {}, scope_at_call |-> {}]

\* No concurrent generate_policy_* calls.
NoWorkers == <<>>

\* The agents, sites, clients and monitoring type whose rows the
\* administrative edits of the cascade specification touch.
EditAgents == {"a1"}
EditSites == {"s1"}
EditMonTypes == {"server"}

\* sync_status written from outside the cascade.  The remote agent checks in:
\* its rows not yet synced become synced and the removals it acknowledges
\* (pendingdeletion) are deleted.
Acknowledged(rows, a) ==
    { IF r.agent = a /\ r.sync_status \in {"initial", "notsynced"}
      THEN [r EXCEPT !.sync_status = "synced"] ELSE r
      : r \in {x \in rows : ~(x.agent = a /\ x.sync_status = "pendingdeletion")} }

\* ------------------------------------------------------------------------
\* Initial states of the cascade specification: P1 (active, enforced) on the
\* client, P2 (active) on the site, P3 (active) on the agent; the agent owns
\* a direct diskspace check for C: and a direct script check for sh1; nothing
\* is materialized yet.  The two
\* generate methods read and write disjoint tables, so a behaviour follows
\* the passes of one of them (resolving).
Init ==
    /\ \E plat \in Platforms :
          agent = [a \in Agents |->
                     IF a = "a1" THEN AgentRow("P3", "server", FALSE, plat)
                     ELSE AgentRow(None, "server", FALSE, "windows")]
    /\ site = [s \in Sites |-> IF s = "s1" THEN SiteRow("P2", None, FALSE)
                               ELSE SiteRow(None, None, FALSE)]
    /\ client = [c \in Clients |-> ClientRow("P1", None)]
    /\ core = ClientRow(None, None)
    /\ policy = [p \in Policies |->
                    IF p = "P1" THEN PolicyRow(TRUE, TRUE, {}, {}, {})
                    ELSE PolicyRow(TRUE, FALSE, {}, {}, {})]
    /\ checks = {DirectCheck(FirstAgentPk, "a1", "diskspace", "C:", "", ""),
                 DirectCheck(FirstAgentPk + 1, "a1", "script", "", "", "sh1")}
    /\ tasks = {}
    /\ next_pk = [check |-> FirstAgentPk + 2, task |-> FirstAgentPk]
    /\ run = IdleRun
    /\ jobs = {}
    /\ related = NoCall
    /\ edits = 0
    /\ resolving \in {"checks", "tasks"}
    /\ op = IdleOp
    /\ gone = {}
    /\ workers = NoWorkers

\* ------------------------------------------------------------------------
\* Policy.generate_policy_checks and Policy.generate_policy_tasks: the
\* cascade, then one creation call per returned template, in order.  A
\* creation call that raises ends the method: the calls before it have
\* inserted their rows, the templates after it are never reached.

\* What is remembered of a call: kind of the method, its agent, the accepted
\* templates (final_list / tasks), the returned ones, the templates whose
\* creation call was made (called) and those never reached (todo), the
\* agent's rows before the call, and whether the call repeats a completed
\* call with nothing written in between.
RunRecord(kind, a, accepted, ret, ncalled, raised) ==
    [pc |-> IF raised THEN "raised" ELSE "done",
     kind |-> kind, agent |-> a,
     todo |-> SubSeq(Pks(ret), ncalled + 1, Len(ret)),
     accepted |-> Pks(accepted), returned |-> Pks(ret),
     pre_checks |-> {c \in checks : c.agent = a},
     pre_tasks |-> {t \in tasks : t.agent = a},
     called |-> {ret[i].pk : i \in 1..ncalled},
     repeat |-> run.pc = "done" /\ run.kind = kind /\ run.agent = a,
     retry |-> IF run.pc = "raised" /\ run.kind = kind /\ run.agent = a
               THEN SeqToSet(run.accepted) \
                      (IF kind = "checks" THEN agent_checks_parent_pks(a)
                       ELSE agent_tasks_parent_pks(a))
               ELSE {}]

\* generate_policy_checks, every creation call returning.
GeneratePolicyChecks(a) ==
    /\ resolving = "checks"
    /\ \E c \in {cascade_policy_checks(a)} : \E ret \in {c.returned} :
          /\ run' = RunRecord("checks", a, c.final_list, ret, Len(ret), FALSE)
          /\ checks' = c.table \cup CreatedChecks(ret, a, next_pk.check)
          /\ next_pk' = [next_pk EXCEPT !.check = @ + Len(ret)]
    /\ UNCHANGED <<agent, site, client, core, policy, tasks, jobs, related, edits,
                   resolving, op, gone, workers>>

\* generate_policy_checks, a creation call (the n-th) raising.
GeneratePolicyChecksRaises(a) ==
    /\ resolving = "checks"
    /\ run.pc # "raised"
    /\ \E c \in {cascade_policy_checks(a)} : \E ret \in {c.returned} :
          \E n \in RaiseAt :
            /\ n <= Len(ret)
            /\ run' = RunRecord("checks", a, c.final_list, ret, n, TRUE)
            /\ checks' = c.table \cup CreatedChecks(SubSeq(ret, 1, n - 1), a, next_pk.check)
            /\ next_pk' = [next_pk EXCEPT !.check = @ + n - 1]
    /\ UNCHANGED <<agent, site, client, core, policy, tasks, jobs, related, edits,
                   resolving, op, gone, workers>>

\* generate_policy_tasks, every creation call returning.
GeneratePolicyTasks(a) ==
    /\ resolving = "tasks"
    /\ \E c \in {cascade_policy_tasks(a)} : \E ret \in {c.returned} :
          /\ run' = RunRecord("tasks", a, c.tasks, ret, Len(ret), FALSE)
          /\ tasks' = c.table \cup CreatedTasks(ret, a, next_pk.task)
          /\ next_pk' = [next_pk EXCEPT !.task = @ + Len(ret)]
    /\ UNCHANGED <<agent, site, client, core, policy, checks, jobs, related, edits,
                   resolving, op, gone, workers>>

\* generate_policy_tasks, a creation call (the n-th) raising.
GeneratePolicyTasksRaises(a) ==
    /\ resolving = "tasks"
    /\ run.pc # "raised"
    /\ \E c \in {cascade_policy_tasks(a)} : \E ret \in {c.returned} :
          \E n \in RaiseAt :
            /\ n <= Len(ret)
            /\ run' = RunRecord("tasks", a, c.tasks, ret, n, TRUE)
            /\ tasks' = c.table \cup CreatedTasks(SubSeq(ret, 1, n - 1), a, next_pk.task)
            /\ next_pk' = [next_pk EXCEPT !.task = @ + n - 1]
    /\ UNCHANGED <<agent, site, client, core, policy, checks, jobs, related, edits,
                   resolving, op, gone, workers>>

\* ------------------------------------------------------------------------
\* Administrative edits.  Each is one write of the database between two
\* resolution passes, made once the pass before it has completed (a call
\* that raised is called again first); it ends what is remembered of the
\* last pass.

Edit ==
    /\ run.pc \in {"done", "synced"}
    /\ edits < MaxEdits
    /\ edits' = edits + 1
    /\ run' = IdleRun
    /\ UNCHANGED <<related, resolving, op, gone, workers>>

\* A variant of the test: only active is compared.
SaveDispatchesOnActive(old, active, enforced) == old.exists /\ old.active # active

\* Policy.save: the test under which the re-resolution job is dispatched.
SaveDispatches(old, active, enforced) ==
    old.exists /\ (old.active # active \/ old.enforced # enforced)

\* old_policy of a policy that has a row.
StoredPolicy(p) ==
    [exists |-> TRUE, active |-> policy[p].active, enforced |-> policy[p].enforced]

\* The message of generate_agent_checks_task.delay(policy=self.pk, create_tasks=True).
SaveJob(p) == [policy |-> p, agents |-> {}, create_tasks |-> TRUE]

\* Policy.save with new values of active and enforced: the row is written,
\* then the re-resolution job is dispatched if either value changed.
PolicySave(p, active, enforced) ==
    /\ Edit
    /\ policy' = [policy EXCEPT ![p].active = active, ![p].enforced = enforced]
    /\ jobs' = IF SaveDispatches(StoredPolicy(p), active, enforced)
               THEN jobs \cup {SaveJob(p)}
               ELSE jobs
    /\ UNCHANGED <<agent, site, client, core, checks, tasks, next_pk>>

AssignAgentPolicy(a, p) ==
    /\ Edit
    /\ agent[a].policy # p
    /\ agent' = [agent EXCEPT ![a].policy = p]
    /\ UNCHANGED <<site, client, core, policy, checks, tasks, next_pk, jobs>>

AssignSitePolicy(s, mt, p) ==
    /\ Edit
    /\ mon_policy(site[s], mt) # p
    /\ site' = IF mt = "server" THEN [site EXCEPT ![s].server_policy = p]
               ELSE [site EXCEPT ![s].workstation_policy = p]
    /\ UNCHANGED <<agent, client, core, policy, checks, tasks, next_pk, jobs>>

AssignClientPolicy(c, mt, p) ==
    /\ Edit
    /\ mon_policy(client[c], mt) # p
    /\ client' = IF mt = "server" THEN [client EXCEPT ![c].server_policy = p]
                 ELSE [client EXCEPT ![c].workstation_policy = p]
    /\ UNCHANGED <<agent, site, core, policy, checks, tasks, next_pk, jobs>>

AssignDefaultPolicy(mt, p) ==
    /\ Edit
    /\ mon_policy(core, mt) # p
    /\ core' = IF mt = "server" THEN [core EXCEPT !.server_policy = p]
               ELSE [core EXCEPT !.workstation_policy = p]
    /\ UNCHANGED <<agent, site, client, policy, checks, tasks, next_pk, jobs>>

SetAgentBlock(a, b) ==
    /\ Edit
    /\ agent[a].block_policy_inheritance # b
    /\ agent' = [agent EXCEPT ![a].block_policy_inheritance = b]
    /\ UNCHANGED <<site, client, core, policy, checks, tasks, next_pk, jobs>>

SetSiteBlock(s, b) ==
    /\ Edit
    /\ site[s].block_policy_inheritance # b
    /\ site' = [site EXCEPT ![s].block_policy_inheritance = b]
    /\ UNCHANGED <<agent, client, core, policy, checks, tasks, next_pk, jobs>>

ExcludeAgent(p, a) ==
    /\ Edit
    /\ a \notin policy[p].excluded_agents
    /\ policy' = [policy EXCEPT ![p].excluded_agents = @ \cup {a}]
    /\ UNCHANGED <<agent, site, client, core, checks, tasks, next_pk, jobs>>

AddDirectCheck(a, k) ==
    /\ Edit
    /\ checks' = checks \cup {DirectCheck(next_pk.check, a, k[1], k[2], k[3], k[4])}
    /\ next_pk' = [next_pk EXCEPT !.check = @ + 1]
    /\ UNCHANGED <<agent, site, client, core, policy, tasks, jobs>>

\* The remote agent checks in after a completed pass.
AgentSync(a) ==
    /\ run.pc = "done" /\ run.agent = a
    /\ run' = [IdleRun EXCEPT !.pc = "synced"]
    /\ checks' = Acknowledged(checks, a)
    /\ tasks' = Acknowledged(tasks, a)
    /\ checks' # checks \/ tasks' # tasks
    /\ UNCHANGED <<agent, site, client, core, policy, next_pk, jobs, related, edits,
                   resolving, op, gone, workers>>

\* A managed check marked for removal from the remote agent.
MarkCheckPendingDeletion(c) ==
    /\ Edit
    /\ c \in checks /\ c.managed_by_policy /\ c.sync_status # "pendingdeletion"
    /\ checks' = (checks \ {c}) \cup {[c EXCEPT !.sync_status = "pendingdeletion"]}
    /\ UNCHANGED <<agent, site, client, core, policy, tasks, next_pk, jobs>>

\* A managed task marked for removal from the remote agent.
MarkTaskPendingDeletion(t) ==
    /\ Edit
    /\ t \in tasks /\ t.managed_by_policy /\ t.sync_status # "pendingdeletion"
    /\ tasks' = (tasks \ {t}) \cup {[t EXCEPT !.sync_status = "pendingdeletion"]}
    /\ UNCHANGED <<agent, site, client, core, policy, checks, next_pk, jobs>>

Next ==
    \/ \E a \in EditAgents : GeneratePolicyChecks(a)
    \/ \E a \in EditAgents : GeneratePolicyChecksRaises(a)
    \/ \E a \in EditAgents : GeneratePolicyTasks(a)
    \/ \E a \in EditAgents : GeneratePolicyTasksRaises(a)
    \/ \E p \in Policies, act \in BOOLEAN, enf \in BOOLEAN :
          /\ (act = policy[p].active) # (enf = policy[p].enforced)
          /\ PolicySave(p, act, enf)
    \/ \E a \in EditAgents, p \in Policies \cup {None} : AssignAgentPolicy(a, p)
    \/ \E s \in EditSites, mt \in EditMonTypes, p \in Policies \cup {None} : AssignSitePolicy(s, mt, p)
    \/ \E c \in Clients, mt \in EditMonTypes, p \in Policies \cup {None} : AssignClientPolicy(c, mt, p)
    \/ \E mt \in EditMonTypes, p \in Policies \cup {None} : AssignDefaultPolicy(mt, p)
    \/ \E a \in EditAgents, b \in BOOLEAN : SetAgentBlock(a, b)
    \/ \E s \in EditSites, b \in BOOLEAN : SetSiteBlock(s, b)
    \/ \E p \in Policies, a \in EditAgents : ExcludeAgent(p, a)
    \/ \E a \in EditAgents, k \in DirectCheckKinds : AddDirectCheck(a, k)
    \/ \E a \in EditAgents : AgentSync(a)
    \/ \E c \in checks : MarkCheckPendingDeletion(c)
    \/ \E t \in tasks : MarkTaskPendingDeletion(t)

Spec == Init /\ [][Next]_vars

\* ------------------------------------------------------------------------
\* The scope specification: Policy.get_related called on every placement of
\* policy P1 in a small organisation.  Agent a1 sits on site s1, agent a2 on
\* site s2, both sites belong to client c1.  P1 may be assigned to a1, to
\* either site and to the client, for either monitoring type; a1 and s1 may
\* block inheritance; a1, s1 and c1 may be excluded from P1.

ScopePolicies == {"P1"}

InitScope ==
    /\ \E p \in ScopePolicies \cup {None}, mt \in MonTypes, b \in BOOLEAN :
          agent = [a \in Agents |->
                     IF a = "a1" THEN AgentRow(p, mt, b, "windows")
                     ELSE AgentRow(None, "server", FALSE, "windows")]
    /\ \E sp \in ScopePolicies \cup {None}, wp \in ScopePolicies \cup {None},
          b \in BOOLEAN, sp2 \in ScopePolicies \cup {None} :
          site = [s \in Sites |-> IF s = "s1" THEN SiteRow(sp, wp, b)
                                   ELSE SiteRow(sp2, None, FALSE)]
    /\ \E sp \in ScopePolicies \cup {None}, wp \in ScopePolicies \cup {None} :
          client = [c \in Clients |-> ClientRow(sp, wp)]
    /\ core = ClientRow(None, None)
    /\ \E ea \in SUBSET {"a1"}, es \in SUBSET {"s1"}, ec \in SUBSET Clients :
          policy = [p \in Policies |->
                      IF p \in ScopePolicies THEN PolicyRow(TRUE, FALSE, ea, es, ec)
                      ELSE PolicyRow(TRUE, FALSE, {}, {}, {})]
    /\ checks = {}
    /\ tasks = {}
    /\ next_pk = [check |-> FirstAgentPk, task |-> FirstAgentPk]
    /\ run = IdleRun
    /\ jobs = {}
    /\ related = NoCall
    /\ edits = 0
    /\ resolving = "checks"
    /\ op = IdleOp
    /\ gone = {}
    /\ workers = NoWorkers

\* P.get_related(mon_type) is called and its result kept.
GetRelatedCall(p, mt) ==
    /\ related' = [policy |-> p, mon_type |-> mt, result |-> get_related(p, mt)]
    /\ UNCHANGED <<agent, site, client, core, policy, checks, tasks, next_pk, run, jobs,
                   edits, resolving, op, gone, workers>>

\* P.related_agents() is called and its result kept.
RelatedAgentsCall(p) ==
    /\ related' = [policy |-> p, mon_type |-> "any", result |-> related_agents(p)]
    /\ UNCHANGED <<agent, site, client, core, policy, checks, tasks, next_pk, run, jobs,
                   edits, resolving, op, gone, workers>>

NextScope ==
    \/ \E p \in ScopePolicies, mt \in MonTypes : GetRelatedCall(p, mt)
    \/ \E p \in ScopePolicies : RelatedAgentsCall(p)

SpecScope == InitScope /\ [][NextScope]_vars

\* ------------------------------------------------------------------------
\* The lifecycle specification: Policy.save and Policy.delete, statement by
\* statement.  P1 exists and may be assigned to agent a1, to its site and to
\* its client; P3 has no row yet.  A call begins when no call is in progress
\* and returns once the worker has taken the job it dispatched.

LifePolicies == {"P1", "P3"}

\* The statements of Policy.save after old_policy is read, and of
\* Policy.delete, in order.
SaveSteps == <<"persist", "dispatch">>
DeleteStepsRemoveFirst == <<"remove", "capture", "dispatch">>
DeleteSteps == <<"capture", "remove", "dispatch">>

\* The message of generate_agent_checks_task.delay(agents=agents, create_tasks=True).
DeleteJob(agents) == [policy |-> None, agents |-> agents, create_tasks |-> TRUE]

InitLife ==
    /\ \E p \in {None, "P1"}, b \in BOOLEAN :
          agent = [a \in Agents |->
                     IF a = "a1" THEN AgentRow(p, "server", b, "windows")
                     ELSE AgentRow(None, "workstation", FALSE, "windows")]
    /\ \E sp \in {None, "P1"}, wp \in {None, "P1"} :
          site = [s \in Sites |-> IF s = "s1" THEN SiteRow(sp, None, FALSE)
                                   ELSE SiteRow(None, wp, FALSE)]
    /\ \E sp \in {None, "P1"} : client = [c \in Clients |-> ClientRow(sp, None)]
    /\ core = ClientRow(None, None)
    /\ \E act \in BOOLEAN, enf \in BOOLEAN :
          policy = [p \in Policies |->
                      IF p = "P1" THEN PolicyRow(act, enf, {}, {}, {})
                      ELSE PolicyRow(FALSE, FALSE, {}, {}, {})]
    /\ checks = {}
    /\ tasks = {}
    /\ next_pk = [check |-> FirstAgentPk, task |-> FirstAgentPk]
    /\ run = IdleRun
    /\ jobs = {}
    /\ related = NoCall
    /\ edits = 0
    /\ resolving = "checks"
    /\ op = IdleOp
    /\ gone = {"P3"}
    /\ workers = NoWorkers

\* Policy.save is called: old_policy is read (None when the policy has no
\* row yet).
SaveCall(p, active, enforced) ==
    /\ op.name = "none"
    /\ op' = [IdleOp EXCEPT !.name = "save", !.pc = 1, !.policy = p,
                            !.old = IF p \in gone THEN NoOld ELSE StoredPolicy(p),
                            !.active = active, !.enforced = enforced]
    /\ UNCHANGED <<agent, site, client, core, policy, checks, tasks, next_pk, run, jobs,
                   related, edits, resolving, gone, workers>>

\* The next statement of Policy.save.
SaveStep ==
    /\ op.name = "save" /\ op.pc <= Len(SaveSteps)
    /\ LET p == op.policy
           dispatched == IF SaveDispatches(op.old, op.active, op.enforced)
                         THEN {SaveJob(p)} ELSE {}
       IN CASE SaveSteps[op.pc] = "persist" ->
                 /\ policy' = [policy EXCEPT ![p].active = op.active,
                                             ![p].enforced = op.enforced]
                 /\ gone' = gone \ {p}
                 /\ op' = [op EXCEPT !.pc = @ + 1]
                 /\ UNCHANGED jobs
            [] SaveSteps[op.pc] = "dispatch" ->
                 /\ jobs' = jobs \cup dispatched
                 /\ op' = [op EXCEPT !.pc = @ + 1, !.sent = dispatched]
                 /\ UNCHANGED <<policy, gone>>
    /\ UNCHANGED <<agent, site, client, core, checks, tasks, next_pk, run, related, edits,
                   resolving, workers>>

\* Policy.delete is called on a policy that has a row.
DeleteCall(p) ==
    /\ op.name = "none"
    /\ p \notin gone
    /\ op' = [IdleOp EXCEPT !.name = "delete", !.pc = 1, !.policy = p,
                            !.scope_at_call = related_agents(p)]
    /\ UNCHANGED <<agent, site, client, core, policy, checks, tasks, next_pk, run, jobs,
                   related, edits, resolving, gone, workers>>

\* super().delete(): the row is removed and the foreign keys that point to
\* it are set to null.
Unassigned(row, p) ==
    [row EXCEPT !.server_policy = IF @ = p THEN None ELSE @,
                !.workstation_policy = IF @ = p THEN None ELSE @]

\* The next statement of Policy.delete.
DeleteStep ==
    /\ op.name = "delete" /\ op.pc <= Len(DeleteSteps)
    /\ LET p == op.policy
       IN CASE DeleteSteps[op.pc] = "capture" ->
                 /\ op' = [op EXCEPT !.pc = @ + 1, !.agents = related_agents(p)]
                 /\ UNCHANGED <<agent, site, client, core, gone, jobs>>
            [] DeleteSteps[op.pc] = "remove" ->
                 /\ gone' = gone \cup {p}
                 /\ agent' = [a \in Agents |->
                                [agent[a] EXCEPT !.policy = IF @ = p THEN None ELSE @]]
                 /\ site' = [s \in Sites |-> Unassigned(site[s], p)]
                 /\ client' = [c \in Clients |-> Unassigned(client[c], p)]
                 /\ core' = Unassigned(core, p)
                 /\ op' = [op EXCEPT !.pc = @ + 1]
                 /\ UNCHANGED jobs
            [] DeleteSteps[op.pc] = "dispatch" ->
                 /\ jobs' = jobs \cup {DeleteJob(op.agents)}
                 /\ op' = [op EXCEPT !.pc = @ + 1, !.sent = {DeleteJob(op.agents)}]
                 /\ UNCHANGED <<agent, site, client, core, gone>>
    /\ UNCHANGED <<policy, checks, tasks, next_pk, run, related, edits, resolving, workers>>

\* The worker takes a dispatched job.
TakeJob(j) ==
    /\ j \in jobs
    /\ jobs' = jobs \ {j}
    /\ UNCHANGED <<agent, site, client, core, policy, checks, tasks, next_pk, run, related,
                   edits, resolving, op, gone, workers>>

\* The call has returned and its job has been taken.
OpReturned == op.name # "none" /\ op.pc > (IF op.name = "save" THEN Len(SaveSteps)
                                                            ELSE Len(DeleteSteps))
OpForget ==
    /\ OpReturned
    /\ jobs = {}
    /\ op' = IdleOp
    /\ UNCHANGED <<agent, site, client, core, policy, checks, tasks, next_pk, run, jobs,
                   related, edits, resolving, gone, workers>>

NextLife ==
    \/ \E p \in LifePolicies, act \in BOOLEAN, enf \in BOOLEAN : SaveCall(p, act, enf)
    \/ SaveStep
    \/ \E p \in LifePolicies : DeleteCall(p)
    \/ DeleteStep
    \/ \E j \in jobs : TakeJob(j)
    \/ OpForget

SpecLife == InitLife /\ [][NextLife]_vars

\* ------------------------------------------------------------------------
\* Properties of the scope computation (checked under SpecScope).

\* The agents whose monitoring type a kept result speaks for.
AskedFor(a) == related.policy # None /\ related.mon_type = agent[a].monitoring_type

\* C1: exclusion precedence.  An agent that is in P.excluded_agents, or whose
\* site is in P.excluded_sites, or whose client is in P.excluded_clients, is
\* not in P.get_related(its monitoring type), however P reaches it and
\* whatever the block_policy_inheritance flags are.
C1_ExclusionPrecedence ==
    \A a \in Agents :
        (AskedFor(a) /\ is_agent_excluded(related.policy, a)) => a \notin related.result

\* A state in which get_related returned an agent that P.excluded_agents
\* names: P is assigned to the agent's site, not to the agent.
C1_ExcludedAgentReturned ==
    \E a \in Agents :
        /\ AskedFor(a)
        /\ a \in policy[related.policy].excluded_agents
        /\ agent[a].policy # related.policy
        /\ a \in related.result

\* C2: block_policy_inheritance never blocks an explicitly assigned policy.
\* (i) An agent assigned P and not excluded is in P.get_related(its
\* monitoring type) even when it blocks inheritance.  (ii) A non-excluded
\* agent that does not block inheritance and whose site is assigned P is in
\* P.get_related(its monitoring type), even when the site blocks inheritance
\* and even when the site's client is assigned P too.
C2_ExplicitNeverBlocked ==
    \A a \in Agents :
        (AskedFor(a) /\ ~is_agent_excluded(related.policy, a)) =>
            /\ agent[a].policy = related.policy => a \in related.result
            /\ ( /\ ~agent[a].block_policy_inheritance
                 /\ mon_policy(site[site_of(a)], related.mon_type) = related.policy )
               => a \in related.result

\* Part (i) of C2 on its own.
C2_AssignedAgentInScope ==
    \A a \in Agents :
        (AskedFor(a) /\ ~is_agent_excluded(related.policy, a)
                     /\ agent[a].policy = related.policy) => a \in related.result

\* A state where part (i) of C2 is exercised: the assigned agent blocks
\* inheritance and is returned.
C2_BlockingAgentReturned ==
    \E a \in Agents :
        /\ AskedFor(a)
        /\ agent[a].policy = related.policy
        /\ agent[a].block_policy_inheritance
        /\ a \in related.result

\* The three ways a policy reaches an agent of the asked monitoring type.
DirectlyAssigned(p, mt, a) ==
    /\ agent[a].policy = p
    /\ a \notin policy[p].excluded_agents
    /\ site_of(a) \notin policy[p].excluded_sites
    /\ client_of(a) \notin policy[p].excluded_clients

ThroughSite(p, mt, a) ==
    /\ ~agent[a].block_policy_inheritance
    /\ mon_policy(site[site_of(a)], mt) = p
    /\ site_of(a) \notin policy[p].excluded_sites
    /\ mon_policy(client[client_of(a)], mt) # p
    /\ client_of(a) \notin policy[p].excluded_clients

ThroughClient(p, mt, a) ==
    /\ ~agent[a].block_policy_inheritance
    /\ ~site[site_of(a)].block_policy_inheritance
    /\ mon_policy(client[client_of(a)], mt) = p
    /\ client_of(a) \notin policy[p].excluded_clients

\* C15: scope computation matches its definition.  get_related(mon_type)
\* returns exactly the agents of that type that are (a) directly assigned
\* the policy and not excluded, or (b) not blocking and under a non-excluded
\* directly assigned site whose client is neither assigned nor excluded, or
\* (c) not blocking, under a non-blocking site, with a non-excluded directly
\* assigned client; every returned agent has the asked monitoring type and
\* a blocking agent is returned only if the policy is assigned to it.
C15_ScopeDefinition ==
    (related.policy # None /\ related.mon_type \in MonTypes) =>
        LET p == related.policy
            mt == related.mon_type
        IN /\ related.result =
                 {a \in Agents :
                    /\ agent[a].monitoring_type = mt
                    /\ \/ DirectlyAssigned(p, mt, a)
                       \/ ThroughSite(p, mt, a)
                       \/ ThroughClient(p, mt, a)}
           /\ \A a \in related.result :
                 /\ agent[a].monitoring_type = mt
                 /\ agent[a].block_policy_inheritance => agent[a].policy = p

\* A state where get_related returned one agent through its client and left
\* out another agent of that client whose site blocks inheritance.
C15_ClientPathTaken ==
    /\ related.policy # None /\ related.mon_type \in MonTypes
    /\ \E a \in related.result :
          /\ agent[a].policy # related.policy
          /\ mon_policy(site[site_of(a)], related.mon_type) # related.policy
    /\ \E a \in Agents \ related.result :
          /\ agent[a].monitoring_type = related.mon_type
          /\ ~agent[a].block_policy_inheritance
          /\ site[site_of(a)].block_policy_inheritance

\* ------------------------------------------------------------------------
\* Properties of the cascade (checked under Spec).  They read what is
\* remembered of the last call; no row of an agent, site, client or policy
\* has been written since that call.

ChecksPass == run.kind = "checks" /\ run.pc \in {"done", "raised"}
TasksPass == run.kind = "tasks" /\ run.pc \in {"done", "raised"}
AcceptedPks == SeqToSet(run.accepted)
ReturnedPks == SeqToSet(run.returned)
CheckTemplate(pk) == CHOOSE t \in PolicyCheckRows : t.pk = pk
TaskTemplate(pk) == CHOOSE t \in PolicyTaskRows : t.pk = pk

\* The managed checks (tasks) the agent held when the call began whose
\* parent template the call did not accept.
StaleBefore ==
    {c \in run.pre_checks : c.managed_by_policy /\ c.parent_check \notin AcceptedPks}
StaleTasksBefore ==
    {t \in run.pre_tasks : t.managed_by_policy /\ t.parent_task \notin AcceptedPks}

\* C3: retirement of checks.  A managed check whose parent template is no
\* longer accepted is deleted by cascade_policy_checks only if its
\* sync_status is 'initial'; otherwise it stays in the agent's checks with
\* sync_status 'pendingdeletion'.
C3_CheckRetirement ==
    ChecksPass =>
        \A c \in StaleBefore :
            IF c.sync_status = "initial"
            THEN \A d \in checks : d.pk # c.pk
            ELSE \E d \in checks : d.pk = c.pk /\ d.sync_status = "pendingdeletion"

\* A state where a stale managed check that had been synced is gone.
C3_SyncedCheckDeleted ==
    /\ ChecksPass
    /\ \E c \in StaleBefore : c.sync_status = "synced" /\ \A d \in checks : d.pk # c.pk

\* C4: revival of checks.  A managed check in 'pendingdeletion' whose parent
\* template is accepted again is kept as the same record with sync_status
\* 'notsynced'; its template is not returned and no second record is made.
C4_CheckRevival ==
    ChecksPass =>
        \A c \in run.pre_checks :
            ( /\ c.managed_by_policy
              /\ c.sync_status = "pendingdeletion"
              /\ c.parent_check \in AcceptedPks )
            => /\ \E d \in checks : d.pk = c.pk /\ d.sync_status = "notsynced"
               /\ c.parent_check \notin ReturnedPks
               /\ \A d \in checks :
                     (d.agent = c.agent /\ d.managed_by_policy
                        /\ d.parent_check = c.parent_check) => d.pk = c.pk

\* A state where the pass left such a check in 'pendingdeletion'.
C4_CheckLeftPending ==
    /\ ChecksPass
    /\ \E c \in run.pre_checks :
          /\ c.managed_by_policy /\ c.sync_status = "pendingdeletion"
          /\ c.parent_check \in AcceptedPks
          /\ c \in checks

\* C5: creation-failure isolation.  When a creation call of
\* generate_policy_checks or generate_policy_tasks fails, the creation call
\* is still made for every remaining template of the returned list.
C5_CreationFailureIsolated ==
    run.pc = "raised" => ReturnedPks \subseteq run.called

\* A state where a creation call raised and later templates were never
\* reached.
C5_SiblingsSkipped == run.pc = "raised" /\ run.todo # <<>>

C7_Idempotence ==
    (run.repeat /\ run.pc = "done") =>
        /\ run.returned = <<>>
        /\ run.kind = "checks" => {c \in checks : c.agent = run.agent} = run.pre_checks
        /\ run.kind = "tasks" => {t \in tasks : t.agent = run.agent} = run.pre_tasks

\* A state after such a second pass, on an agent that holds managed checks
\* and an overridden direct check.
C7_SecondPassDone ==
    /\ run.repeat /\ run.pc = "done" /\ run.kind = "checks"
    /\ AcceptedPks # {}
    /\ \E c \in run.pre_checks : c.managed_by_policy
    /\ \E c \in run.pre_checks : ~c.managed_by_policy /\ c.overriden_by_policy

\* The active policies cascade_policy_checks reads for the agent, and the
\* templates they hold.
AppliedPolicies(a) ==
    LET pol == get_agent_policies(a)
    IN {p \in {pol.agent_policy, pol.site_policy, pol.client_policy, pol.default_policy}
              \ {None} : policy[p].active}
AppliedTemplates(a) == {t \in PolicyCheckRows : t.policy \in AppliedPolicies(a)}
DirectChecks(a) == {c \in checks : c.agent = a /\ ~c.managed_by_policy}
AcceptedWithKey(k) == {pk \in AcceptedPks : DedupKey(CheckTemplate(pk)) = k}

\* The templates of an enforced and of a non-enforced applied policy that
\* share their key with a direct check of the agent, the key being one the
\* loop handles on the agent's platform.
Contested(a) ==
    {te \in AppliedTemplates(a) :
        /\ policy[te.policy].enforced
        /\ Handled(te, a)
        /\ \E tn \in AppliedTemplates(a) :
              ~policy[tn.policy].enforced /\ DedupKey(tn) = DedupKey(te)
        /\ \E d \in DirectChecks(a) : DedupKey(d) = DedupKey(te)}

\* The templates of non-enforced applied policies whose key nothing else
\* uses.
Uncontested(a) ==
    {tn \in AppliedTemplates(a) :
        /\ ~policy[tn.policy].enforced
        /\ Handled(tn, a)
        /\ \A t \in AppliedTemplates(a) : DedupKey(t) = DedupKey(tn) => t = tn
        /\ \A d \in DirectChecks(a) : DedupKey(d) # DedupKey(tn)}

\* C8: enforced precedence.  When an active enforced policy and an active
\* non-enforced policy of the agent's hierarchy define a template with the
\* same key and the agent owns a direct check with that key,
\* cascade_policy_checks accepts exactly one template for the key, a
\* template of an enforced policy; it does not return the direct check and
\* it sets the direct check's override flag.  Templates of the non-enforced
\* policy whose key nobody else uses are accepted.
C8_EnforcedPrecedence ==
    ChecksPass =>
        /\ \A te \in Contested(run.agent) :
              /\ Cardinality(AcceptedWithKey(DedupKey(te))) = 1
              /\ \A pk \in AcceptedWithKey(DedupKey(te)) :
                    policy[CheckTemplate(pk).policy].enforced
              /\ \A d \in DirectChecks(run.agent) :
                    DedupKey(d) = DedupKey(te)
                    => d.overriden_by_policy /\ d.pk \notin ReturnedPks
        /\ \A tn \in Uncontested(run.agent) : tn.pk \in AcceptedPks

\* A state after a checks pass with a contested key and an uncontested
\* template of a non-enforced policy.
C8_ContestedKeyResolved ==
    /\ ChecksPass
    /\ Contested(run.agent) # {}
    /\ Uncontested(run.agent) # {}

C10_TaskRetirement ==
    TasksPass =>
        /\ \A t \in StaleTasksBefore :
              IF t.sync_status = "initial"
              THEN \A d \in tasks : d.pk # t.pk
              ELSE \E d \in tasks : d.pk = t.pk /\ d.sync_status = "pendingdeletion"
        /\ \A t \in run.pre_tasks \ StaleTasksBefore :
              t.managed_by_policy
              => \E d \in tasks : d.pk = t.pk /\ d.sync_status # "pendingdeletion"

\* A state after a tasks pass that retired a synced task and kept another.
C10_SyncedTaskRetired ==
    /\ TasksPass
    /\ \E t \in StaleTasksBefore :
          /\ t.sync_status = "synced"
          /\ \E d \in tasks : d.pk = t.pk /\ d.sync_status = "pendingdeletion"
    /\ \E t \in run.pre_tasks \ StaleTasksBefore : t \in tasks

\* C11: revival of tasks.  A managed task in 'pendingdeletion' whose parent
\* template is among the accepted tasks is kept as the same record with
\* sync_status 'notsynced', and its parent is not in the returned list.
C11_TaskRevival ==
    TasksPass =>
        \A t \in run.pre_tasks :
            ( /\ t.managed_by_policy
              /\ t.sync_status = "pendingdeletion"
              /\ t.parent_task \in AcceptedPks )
            => /\ [t EXCEPT !.sync_status = "notsynced"] \in tasks
               /\ t.parent_task \notin ReturnedPks
               /\ \A d \in tasks :
                     (d.agent = t.agent /\ d.parent_task = t.parent_task) => d.pk = t.pk

\* A state after a tasks pass that revived a task.
C11_TaskRevived ==
    /\ TasksPass
    /\ \E t \in run.pre_tasks :
          /\ t.managed_by_policy /\ t.sync_status = "pendingdeletion"
          /\ t.parent_task \in AcceptedPks
          /\ [t EXCEPT !.sync_status = "notsynced"] \in tasks

\* The check types that exist on windows agents only.
WindowsOnlyTypes == {"diskspace", "cpuload", "memory", "winsvc", "eventlog"}

\* C12: platform filtering.  On an agent whose platform is not windows no
\* diskspace, cpuload, memory, winsvc or eventlog template is accepted or
\* returned by cascade_policy_checks; on any agent no script check template
\* and no task template is accepted or returned whose script shell the
\* agent does not support.
C12_PlatformFiltering ==
    /\ ChecksPass =>
          \A pk \in AcceptedPks \cup ReturnedPks :
              LET t == CheckTemplate(pk)
              IN /\ t.check_type \in WindowsOnlyTypes => agent[run.agent].plat = "windows"
                 /\ t.check_type = "script"
                    => is_supported_script(run.agent, ScriptShell(t.script))
    /\ TasksPass =>
          \A pk \in AcceptedPks \cup ReturnedPks :
              is_supported_script(run.agent, ScriptShell(TaskTemplate(pk).script))

\* A state after a checks pass on a linux agent whose applied policies hold
\* windows-only templates and a script template of an unsupported shell,
\* some template being accepted.
C12_LinuxAgentResolved ==
    /\ ChecksPass
    /\ agent[run.agent].plat = "linux"
    /\ AcceptedPks # {}
    /\ \E t \in AppliedTemplates(run.agent) : t.check_type \in WindowsOnlyTypes
    /\ \E t \in AppliedTemplates(run.agent) :
          t.check_type = "script" /\ ~is_supported_script(run.agent, ScriptShell(t.script))

\* ------------------------------------------------------------------------
\* Properties of Policy.save and Policy.delete (checked under SpecLife).

\* C13: policy deletion ordering.  Policy.delete computes related_agents
\* while the policy still exists, then removes the policy, and only then
\* dispatches the job with exactly the agents captured before the removal:
\* a dispatched job finds the policy gone and carries the scope the policy
\* had when the call began.
C13_DeleteOrdering ==
    op.name = "delete" =>
        /\ \A j \in op.sent : op.policy \in gone /\ j.agents = op.scope_at_call
        /\ op.policy \in gone => op.agents = op.scope_at_call

\* A state where the job of a delete has been dispatched with a non-empty
\* set of agents and the policy is gone.
C13_DeleteDispatched ==
    /\ op.name = "delete"
    /\ op.policy \in gone
    /\ \E j \in op.sent : j \in jobs /\ j.agents # {} /\ j.agents = op.scope_at_call

\* C14: policy save trigger.  Policy.save dispatches a job for the policy
\* iff the policy already existed and its stored active or enforced value
\* differs from the value saved; a brand-new policy or a save that changes
\* neither value dispatches nothing; a dispatched job finds the new values
\* persisted.
C14_SaveTrigger ==
    op.name = "save" =>
        /\ OpReturned =>
              ( op.sent # {} <=>
                  ( /\ op.old.exists
                    /\ (op.old.active # op.active \/ op.old.enforced # op.enforced) ) )
        /\ \A j \in op.sent :
              /\ j.policy = op.policy
              /\ op.policy \notin gone
              /\ policy[op.policy].active = op.active
              /\ policy[op.policy].enforced = op.enforced
        /\ ~op.old.exists => jobs = {}

\* A state where a save that changed only enforced has dispatched its job.
C14_SaveDispatched ==
    /\ op.name = "save" /\ OpReturned
    /\ op.old.exists /\ op.old.active = op.active /\ op.old.enforced # op.enforced
    /\ SaveJob(op.policy) \in jobs

\* ------------------------------------------------------------------------
\* The stated order of the candidates of cascade_policy_checks.

\* The first level of the agent's hierarchy that holds policy p: 1 agent,
\* 2 site, 3 client, 4 default.
LevelOf(a, p) ==
    LET pol == get_agent_policies(a)
    IN IF pol.agent_policy = p THEN 1
       ELSE IF pol.site_policy = p THEN 2
       ELSE IF pol.client_policy = p THEN 3 ELSE 4

\* Place of a candidate in the stated order: enforced templates by level,
\* then the agent's direct checks, then non-enforced templates by level.
Place(a, c) ==
    IF c.agent # None THEN <<2, 0, c.pk>>
    ELSE <<IF policy[c.policy].enforced THEN 1 ELSE 3, LevelOf(a, c.policy), c.pk>>

Before(x, y) ==
    \/ x[1] < y[1]
    \/ x[1] = y[1] /\ x[2] < y[2]
    \/ x[1] = y[1] /\ x[2] = y[2] /\ x[3] < y[3]

\* The candidates with the key of c that come before c.
EarlierWithKey(a, c) ==
    {x \in AppliedTemplates(a) \cup DirectChecks(a) :
        DedupKey(x) = DedupKey(c) /\ Before(Place(a, x), Place(a, c))}

\* C16: precedence order of check candidates.  Candidates are taken in the
\* order enforced templates (agent, site, client, default policy), the
\* agent's direct checks, non-enforced templates (same level order), and
\* for each key the first candidate wins: a template is accepted iff it
\* belongs to an active policy of the hierarchy, its branch handles it and
\* no candidate with its key comes before it; a non-enforced template that
\* shares its key with a direct check is not accepted and does not flag the
\* direct check.
C16_PrecedenceOrder ==
    ChecksPass =>
        /\ \A t \in PolicyCheckRows :
              t.pk \in AcceptedPks <=>
                  ( /\ t \in AppliedTemplates(run.agent)
                    /\ Handled(t, run.agent)
                    /\ EarlierWithKey(run.agent, t) = {} )
        /\ \A d \in DirectChecks(run.agent) :
              \A t \in AppliedTemplates(run.agent) :
                  (~policy[t.policy].enforced /\ DedupKey(t) = DedupKey(d)
                     /\ Handled(t, run.agent))
                  => /\ t.pk \notin AcceptedPks
                     /\ EarlierWithKey(run.agent, d) = {}
                        => \E b \in run.pre_checks :
                              b.pk = d.pk /\ b.overriden_by_policy = d.overriden_by_policy

\* A state after a checks pass where a non-enforced template lost its key
\* to a direct check that stays unflagged, a policy of the hierarchy being
\* inactive.
C16_DirectCheckWins ==
    /\ ChecksPass
    /\ \E d \in DirectChecks(run.agent), t \in AppliedTemplates(run.agent) :
          /\ ~policy[t.policy].enforced
          /\ DedupKey(t) = DedupKey(d)
          /\ Handled(t, run.agent)
          /\ ~d.overriden_by_policy
          /\ t.pk \notin AcceptedPks
    /\ \E p \in Policies : ~policy[p].active /\ LevelOf(run.agent, p) < 4

\* ------------------------------------------------------------------------
\* Materialization under sequential use.

\* The parents of the managed rows the agent held when the last pass began.
PriorManagedParents ==
    IF run.kind = "checks"
    THEN {c.parent_check : c \in {x \in run.pre_checks : x.managed_by_policy}}
    ELSE {t.parent_task : t \in {x \in run.pre_tasks : x.managed_by_policy}}

\* C17: no duplicate materialization under sequential use.  Whatever edits
\* are made between passes that run one after the other, an agent never
\* holds two managed checks with the same parent_check nor two managed
\* tasks with the same parent_task, and no pass returns a template that
\* was the parent of a managed row of the agent when the pass began.
C17_NoDuplicateMaterialization ==
    /\ \A c, d \in checks :
          (c.managed_by_policy /\ d.managed_by_policy /\ c.agent = d.agent
             /\ c.parent_check = d.parent_check) => c.pk = d.pk
    /\ \A t, u \in tasks :
          (t.managed_by_policy /\ u.managed_by_policy /\ t.agent = u.agent
             /\ t.parent_task = u.parent_task) => t.pk = u.pk
    /\ (ChecksPass \/ TasksPass) => ReturnedPks \cap PriorManagedParents = {}

\* A state after a policy change and a complete pass that found managed
\* rows of earlier passes and still materialized new templates.
C17_ChangedPolicyResolved ==
    /\ run.pc = "done"
    /\ edits >= 1
    /\ ReturnedPks # {}
    /\ PriorManagedParents # {}
    /\ ReturnedPks \subseteq {c.parent_check : c \in {x \in checks : x.managed_by_policy}}

\* ------------------------------------------------------------------------
\* Two calls of generate_policy_checks (or generate_policy_tasks) on one
\* agent at the same time.  Neither method takes a lock or opens a
\* transaction, so the calls interleave between the cascade and each
\* creation call.

RaceWorkers == {"w1", "w2"}
RaceAgent == "a1"

StartWorker == [pc |-> "start", accepted |-> <<>>, todo |-> <<>>]

\* The agent has policy P3 only; P1 and P2 are assigned above it but inactive.
InitRace ==
    /\ \E plat \in Platforms :
          agent = [a \in Agents |->
                     IF a = RaceAgent THEN AgentRow("P3", "server", FALSE, plat)
                     ELSE AgentRow(None, "workstation", FALSE, "windows")]
    /\ site = [s \in Sites |-> IF s = "s1" THEN SiteRow("P2", None, FALSE)
                                ELSE SiteRow(None, None, FALSE)]
    /\ client = [c \in Clients |-> ClientRow("P1", None)]
    /\ core = ClientRow(None, None)
    /\ policy = [p \in Policies |->
                   IF p = "P3" THEN PolicyRow(TRUE, FALSE, {}, {}, {})
                   ELSE PolicyRow(FALSE, p = "P1", {}, {}, {})]
    /\ checks = {DirectCheck(FirstAgentPk, RaceAgent, "diskspace", "C:", "", "")}
    /\ tasks = {}
    /\ next_pk = [check |-> FirstAgentPk + 1, task |-> FirstAgentPk]
    /\ run = IdleRun
    /\ jobs = {}
    /\ related = NoCall
    /\ edits = 0
    /\ resolving \in {"checks", "tasks"}
    /\ op = IdleOp
    /\ gone = {}
    /\ workers = [w \in RaceWorkers |-> StartWorker]

\* checks = Policy.cascade_policy_checks(agent) (line 362), resp.
\* tasks = Policy.cascade_policy_tasks(agent) (line 370), of worker w.
WorkerCascade(w) ==
    /\ workers[w].pc = "start"
    /\ IF resolving = "checks"
       THEN LET c == cascade_policy_checks(RaceAgent)
            IN /\ checks' = c.table
               /\ workers' = [workers EXCEPT ![w] =
                      [pc |-> "creating", accepted |-> Pks(c.final_list),
                       todo |-> c.returned]]
               /\ UNCHANGED tasks
       ELSE LET c == cascade_policy_tasks(RaceAgent)
            IN /\ tasks' = c.table
               /\ workers' = [workers EXCEPT ![w] =
                      [pc |-> "creating", accepted |-> Pks(c.tasks),
                       todo |-> c.returned]]
               /\ UNCHANGED checks
    /\ UNCHANGED <<agent, site, client, core, policy, next_pk, run, jobs, related,
                   edits, resolving, op, gone>>

\* One turn of the loop at lines 365-366, resp. 373-374, of worker w.
WorkerCreate(w) ==
    /\ workers[w].pc = "creating"
    /\ workers[w].todo # <<>>
    /\ LET t == Head(workers[w].todo)
       IN IF resolving = "checks"
          THEN /\ checks' = checks \cup {create_policy_check(t, RaceAgent, next_pk.check)}
               /\ next_pk' = [next_pk EXCEPT !.check = @ + 1]
               /\ UNCHANGED tasks
          ELSE /\ tasks' = tasks \cup {create_policy_task(t, RaceAgent, next_pk.task)}
               /\ next_pk' = [next_pk EXCEPT !.task = @ + 1]
               /\ UNCHANGED checks
    /\ workers' = [workers EXCEPT ![w].todo = Tail(@)]
    /\ UNCHANGED <<agent, site, client, core, policy, run, jobs, related, edits,
                   resolving, op, gone>>

\* The loop of worker w is over (or the list was empty, line 364): the call
\* returns.
WorkerReturn(w) ==
    /\ workers[w].pc = "creating"
    /\ workers[w].todo = <<>>
    /\ workers' = [workers EXCEPT ![w].pc = "done"]
    /\ UNCHANGED <<agent, site, client, core, policy, checks, tasks, next_pk, run,
                   jobs, related, edits, resolving, op, gone>>

NextRace ==
    \/ \E w \in RaceWorkers : WorkerCascade(w)
    \/ \E w \in RaceWorkers : WorkerCreate(w)
    \/ \E w \in RaceWorkers : WorkerReturn(w)

SpecRace == InitRace /\ [][NextRace]_vars

\* The parents of the managed rows the agent holds, by kind of pass.
ManagedOf(a) ==
    IF resolving = "checks"
    THEN {c \in checks : c.agent = a /\ c.managed_by_policy}
    ELSE {t \in tasks : t.agent = a /\ t.managed_by_policy}

ParentOf(row) == IF resolving = "checks" THEN row.parent_check ELSE row.parent_task

AllReturned == \A w \in RaceWorkers : workers[w].pc = "done"

\* C18: concurrent resolutions for the same agent do not race.  Once two
\* runs on one agent have both returned, however their steps interleaved,
\* the agent holds what the two runs leave when one follows the other: one
\* managed row for every accepted template and no template materialized
\* twice.
C18_ConcurrentRunsSerializable ==
    AllReturned =>
        /\ \A w \in RaceWorkers :
              {ParentOf(r) : r \in ManagedOf(RaceAgent)} = SeqToSet(workers[w].accepted)
        /\ \A r, q \in ManagedOf(RaceAgent) : ParentOf(r) = ParentOf(q) => r.pk = q.pk

\* Both runs have computed their cascade and neither has created a row yet.
C18_BothCascadedFirst ==
    /\ \A w \in RaceWorkers : workers[w].pc = "creating" /\ workers[w].todo # <<>>
    /\ ManagedOf(RaceAgent) = {}

\* ------------------------------------------------------------------------
\* The override flag of direct checks.

\* The templates of active enforced policies of the hierarchy that the loop
\* handles on the agent and that have the key of direct check d.
EnforcedDuplicates(a, d) ==
    {t \in AppliedTemplates(a) :
        policy[t.policy].enforced /\ Handled(t, a) /\ DedupKey(t) = DedupKey(d)}

\* C19: the override flag tracks the current policy state.  After a checks
\* pass a direct check of the agent is flagged overriden_by_policy only if
\* some active enforced policy of the agent's hierarchy has, at that pass,
\* a template with the same applicable key.
C19_OverrideFlagCurrent ==
    ChecksPass =>
        \A d \in DirectChecks(run.agent) :
            d.overriden_by_policy => EnforcedDuplicates(run.agent, d) # {}

\* A state after a policy change and a checks pass where a direct check
\* was flagged before the pass and no enforced template has its key any
\* more.
C19_EnforcerWithdrawn ==
    /\ ChecksPass
    /\ edits >= 1
    /\ \E d \in DirectChecks(run.agent) :
          /\ \E b \in run.pre_checks : b.pk = d.pk /\ b.overriden_by_policy
          /\ EnforcedDuplicates(run.agent, d) = {}

\* ------------------------------------------------------------------------
\* Passes after a creation call that raised.

\* Passes keep being run and creation calls succeed in the end: after a
\* pass that raised, a pass whose creation calls all return is made.  The
\* callers of generate_policy_checks and generate_policy_tasks run them
\* again on every agent check-in and policy change.
RetryPass ==
    /\ run.pc = "raised"
    /\ \E a \in EditAgents : GeneratePolicyChecks(a) \/ GeneratePolicyTasks(a)

SpecFair == Spec /\ WF_vars(RetryPass)

\* The managed rows of the agent of the last pass whose parent is pk.
RowsOfParent(pk) ==
    IF run.kind = "checks"
    THEN {c \in checks : c.agent = run.agent /\ c.managed_by_policy /\ c.parent_check = pk}
    ELSE {t \in tasks : t.agent = run.agent /\ t.managed_by_policy /\ t.parent_task = pk}

Unhealed == run.pc = "raised" /\ \E pk \in AcceptedPks : RowsOfParent(pk) = {}

Healed == run.pc = "done" /\ \A pk \in AcceptedPks : Cardinality(RowsOfParent(pk)) = 1

\* C20: self-healing after a failed creation.  The accepted templates that
\* a pass left without a managed row because a creation call raised are
\* returned again by the next pass, and when passes keep being run with
\* creation calls that return, a state is reached where every accepted
\* template has exactly one managed row on the agent.
C20_SelfHealing ==
    /\ []((ChecksPass \/ TasksPass) => run.retry \subseteq ReturnedPks)
    /\ (Unhealed ~> Healed)

\* A state after the pass that follows a failed one: the templates left
\* over were returned again and every accepted template has one row.
C20_HealedAfterFailure ==
    /\ run.retry # {}
    /\ run.retry \subseteq ReturnedPks
    /\ Healed

====
